---- MODULE Spec2Model ----
(***************************************************************************)
(* Model of the load-profile remapping engine of timeisseler/ferienplanung *)
(* (load_profile_processor.py, holiday_fetcher_improved.py, config.py).    *)
(*                                                                         *)
(* Dates are proleptic Gregorian ordinals (datetime.date.toordinal()), so  *)
(* that comparison and timedelta arithmetic are integer operations and     *)
(* weekday(), isocalendar() and tm_yday are computed as CPython does.      *)
(* Strings are sequences of one-character strings, so that lower(),        *)
(* replace(), strip() and the `in` substring test act on characters.       *)
(***************************************************************************)
EXTENDS Integers, Sequences, FiniteSets, TLC

(* ------------------------------------------------------------------ *)
(* config.py                                                           *)
(* ------------------------------------------------------------------ *)
INTERVALS_PER_DAY == 96
INTERVAL_MINUTES == 15

(* ------------------------------------------------------------------ *)
(* datetime.date, as the source uses it                                *)
(* ------------------------------------------------------------------ *)
IsLeap(y) == (y % 4 = 0) /\ ((y % 100 # 0) \/ (y % 400 = 0))

DaysInYear(y) == IF IsLeap(y) THEN 366 ELSE 365

DaysBeforeYear(y) ==
    LET p == y - 1 IN p * 365 + (p \div 4) - (p \div 100) + (p \div 400)

DaysInMonth(y, m) ==
    IF m = 2 THEN (IF IsLeap(y) THEN 29 ELSE 28)
    ELSE IF m \in {4, 6, 9, 11} THEN 30 ELSE 31

RECURSIVE DaysBeforeMonth(_, _)
DaysBeforeMonth(y, m) ==
    IF m = 1 THEN 0 ELSE DaysBeforeMonth(y, m - 1) + DaysInMonth(y, m - 1)

\* date(y, m, d): the ordinal of the date
Date(y, m, d) == DaysBeforeYear(y) + DaysBeforeMonth(y, m) + d

\* d.year: the year whose 1 January is the last one not after d
YearOf(d) ==
    LET g == (d * 400) \div 146097 + 1
    IN  IF DaysBeforeYear(g) >= d THEN g - 1
        ELSE IF DaysBeforeYear(g + 1) < d THEN g + 1 ELSE g

\* d.timetuple().tm_yday
DayOfYear(d) == d - DaysBeforeYear(YearOf(d))

RECURSIVE MonthFrom(_, _, _)
MonthFrom(y, m, n) ==
    IF n <= DaysInMonth(y, m) THEN m ELSE MonthFrom(y, m + 1, n - DaysInMonth(y, m))

\* d.month, d.day
MonthOf(d) == MonthFrom(YearOf(d), 1, DayOfYear(d))
DayOf(d) == DayOfYear(d) - DaysBeforeMonth(YearOf(d), MonthOf(d))

\* d.weekday(): Monday = 0 ... Sunday = 6
Weekday(d) == (d + 6) % 7

\* the Monday of ISO week 1 of year y
IsoWeek1Monday(y) ==
    LET firstday == Date(y, 1, 1)
        firstweekday == (firstday + 6) % 7
        week1monday == firstday - firstweekday
    IN  IF firstweekday > 3 THEN week1monday + 7 ELSE week1monday

\* d.isocalendar()[1]
IsoWeek(d) ==
    LET y == YearOf(d)
        week == (d - IsoWeek1Monday(y)) \div 7
    IN  IF week < 0 THEN (d - IsoWeek1Monday(y - 1)) \div 7 + 1
        ELSE IF week >= 52 /\ d >= IsoWeek1Monday(y + 1) THEN 1
        ELSE week + 1

(* ------------------------------------------------------------------ *)
(* str, as the source uses it                                          *)
(* ------------------------------------------------------------------ *)
Digit(n) == CASE n = 0 -> "0" [] n = 1 -> "1" [] n = 2 -> "2" [] n = 3 -> "3"
              [] n = 4 -> "4" [] n = 5 -> "5" [] n = 6 -> "6" [] n = 7 -> "7"
              [] n = 8 -> "8" [] n = 9 -> "9"

\* str(n) for n >= 0
RECURSIVE Str(_)
Str(n) == IF n < 10 THEN <<Digit(n)>> ELSE Str(n \div 10) \o <<Digit(n % 10)>>

\* n rendered with at least w digits (the %m and %d of str(date))
RECURSIVE ZeroPad(_, _)
ZeroPad(s, w) == IF Len(s) >= w THEN s ELSE ZeroPad(<<"0">> \o s, w)

\* str(d) of a date: YYYY-MM-DD
DateStr(d) ==
    ZeroPad(Str(YearOf(d)), 4) \o <<"-">> \o ZeroPad(Str(MonthOf(d)), 2)
        \o <<"-">> \o ZeroPad(Str(DayOf(d)), 2)

LowerChar(c) ==
    CASE c = "A" -> "a" [] c = "B" -> "b" [] c = "C" -> "c" [] c = "D" -> "d"
      [] c = "E" -> "e" [] c = "F" -> "f" [] c = "G" -> "g" [] c = "H" -> "h"
      [] c = "I" -> "i" [] c = "J" -> "j" [] c = "K" -> "k" [] c = "L" -> "l"
      [] c = "M" -> "m" [] c = "N" -> "n" [] c = "O" -> "o" [] c = "P" -> "p"
      [] c = "Q" -> "q" [] c = "R" -> "r" [] c = "S" -> "s" [] c = "T" -> "t"
      [] c = "U" -> "u" [] c = "V" -> "v" [] c = "W" -> "w" [] c = "X" -> "x"
      [] c = "Y" -> "y" [] c = "Z" -> "z" [] OTHER -> c

\* s.lower()
Lower(s) == [i \in 1..Len(s) |-> LowerChar(s[i])]

\* sub in s
Contains(s, sub) ==
    \E i \in 0..(Len(s) - Len(sub)) :
        \A j \in 1..Len(sub) : s[i + j] = sub[j]

\* s.replace(old, ''), old not empty: leftmost non-overlapping occurrences
RECURSIVE Remove(_, _)
Remove(s, old) ==
    IF Len(s) < Len(old) THEN s
    ELSE IF SubSeq(s, 1, Len(old)) = old
         THEN Remove(SubSeq(s, Len(old) + 1, Len(s)), old)
         ELSE <<s[1]>> \o Remove(Tail(s), old)

\* s.strip()
RECURSIVE LStrip(_)
LStrip(s) == IF s # <<>> /\ s[1] = " " THEN LStrip(Tail(s)) ELSE s
RECURSIVE RStrip(_)
RStrip(s) ==
    IF s # <<>> /\ s[Len(s)] = " " THEN RStrip(SubSeq(s, 1, Len(s) - 1)) ELSE s
Strip(s) == RStrip(LStrip(s))

\* the characters of a decimal digit, -1 for any other character
DigitVal(c) == CASE c = "0" -> 0 [] c = "1" -> 1 [] c = "2" -> 2 [] c = "3" -> 3
                 [] c = "4" -> 4 [] c = "5" -> 5 [] c = "6" -> 6 [] c = "7" -> 7
                 [] c = "8" -> 8 [] c = "9" -> 9 [] OTHER -> -1

IsDigits(s) == \A i \in 1..Len(s) : DigitVal(s[i]) >= 0

\* int(s) of a string of digits
RECURSIVE IntOf(_)
IntOf(s) == IF s = <<>> THEN 0
            ELSE IntOf(SubSeq(s, 1, Len(s) - 1)) * 10 + DigitVal(s[Len(s)])

\* the value a failed parse yields (None)
NoDate == 0

\* the date of the fields strptime has read; NoDate where they are no date
ValidDate(y, m, d) ==
    IF y >= 1 /\ m \in 1..12 /\ d >= 1 /\ d <= DaysInMonth(y, m)
    THEN Date(y, m, d) ELSE NoDate

\* datetime.strptime(s, '%Y-%m-%d').date() on a zero-padded string; NoDate
\* where strptime raises ValueError
ParseYmd(s) ==
    IF Len(s) = 10 /\ s[5] = "-" /\ s[8] = "-"
       /\ IsDigits(SubSeq(s, 1, 4)) /\ IsDigits(SubSeq(s, 6, 7))
       /\ IsDigits(SubSeq(s, 9, 10))
    THEN ValidDate(IntOf(SubSeq(s, 1, 4)), IntOf(SubSeq(s, 6, 7)),
                   IntOf(SubSeq(s, 9, 10)))
    ELSE NoDate

\* 'HH:MM:SS' of the %H:%M:%S formats
IsHms(s) ==
    /\ Len(s) = 8 /\ s[3] = ":" /\ s[6] = ":"
    /\ IsDigits(SubSeq(s, 1, 2)) /\ IntOf(SubSeq(s, 1, 2)) <= 23
    /\ IsDigits(SubSeq(s, 4, 5)) /\ IntOf(SubSeq(s, 4, 5)) <= 59
    /\ IsDigits(SubSeq(s, 7, 8)) /\ IntOf(SubSeq(s, 7, 8)) <= 61

\* the %z suffixes the payloads use: Z, +HHMM, -HHMM
IsUtcOffset(s) ==
    \/ s = <<"Z">>
    \/ /\ Len(s) = 5 /\ s[1] \in {"+", "-"} /\ IsDigits(SubSeq(s, 2, 5))
       /\ IntOf(SubSeq(s, 2, 3)) <= 23 /\ IntOf(SubSeq(s, 4, 5)) <= 59

\* HolidayFetcher._parse_date: the first of the four formats that parses
parse_date(date_str) ==
    IF date_str = <<>> THEN NoDate
    ELSE IF ParseYmd(date_str) # NoDate THEN ParseYmd(date_str)
    ELSE IF Len(date_str) >= 19 /\ date_str[11] = "T"
            /\ IsHms(SubSeq(date_str, 12, 19))
            /\ \/ Len(date_str) = 19
               \/ IsUtcOffset(SubSeq(date_str, 20, Len(date_str)))
         THEN ParseYmd(SubSeq(date_str, 1, 10))
    ELSE NoDate

(* ------------------------------------------------------------------ *)
(* dict, list: insertion-ordered, as the source iterates them          *)
(* ------------------------------------------------------------------ *)
\* d[k] = v on a dict held as a sequence of <<key, value>> pairs
DictSet(d, k, v) ==
    IF \E i \in 1..Len(d) : d[i][1] = k
    THEN [i \in 1..Len(d) |-> IF d[i][1] = k THEN <<k, v>> ELSE d[i]]
    ELSE Append(d, <<k, v>>)

\* x in a list
InList(x, l) == \E i \in 1..Len(l) : l[i] = x

(* ------------------------------------------------------------------ *)
(* holiday_fetcher_improved.py: the names the fallback generator uses  *)
(* ------------------------------------------------------------------ *)
NEUJAHR == <<"N", "e", "u", "j", "a", "h", "r">>
KARFREITAG == <<"K", "a", "r", "f", "r", "e", "i", "t", "a", "g">>
OSTERSONNTAG == <<"O", "s", "t", "e", "r", "s", "o", "n", "n", "t", "a", "g">>
OSTERMONTAG == <<"O", "s", "t", "e", "r", "m", "o", "n", "t", "a", "g">>
TAG_DER_ARBEIT ==
    <<"T", "a", "g", " ", "d", "e", "r", " ", "A", "r", "b", "e", "i", "t">>
CHRISTI_HIMMELFAHRT ==
    <<"C", "h", "r", "i", "s", "t", "i", " ", "H", "i", "m",
     "m", "e", "l", "f", "a", "h", "r", "t">>
PFINGSTMONTAG ==
    <<"P", "f", "i", "n", "g", "s", "t", "m", "o", "n", "t", "a", "g">>
TAG_DER_DEUTSCHEN_EINHEIT ==
    <<"T", "a", "g", " ", "d", "e", "r", " ", "D", "e", "u",
     "t", "s", "c", "h", "e", "n", " ", "E", "i", "n", "h", "e", "i", "t">>
WEIHNACHTEN == <<"W", "e", "i", "h", "n", "a", "c", "h", "t", "e", "n">>
ZWEITER_WEIHNACHTSTAG ==
    <<"2", ".", " ", "W", "e", "i", "h", "n", "a", "c", "h",
     "t", "s", "t", "a", "g">>
WINTERFERIEN == <<"W", "i", "n", "t", "e", "r", "f", "e", "r", "i", "e", "n">>
OSTERFERIEN == <<"O", "s", "t", "e", "r", "f", "e", "r", "i", "e", "n">>
PFINGSTFERIEN ==
    <<"P", "f", "i", "n", "g", "s", "t", "f", "e", "r", "i", "e", "n">>
SOMMERFERIEN == <<"S", "o", "m", "m", "e", "r", "f", "e", "r", "i", "e", "n">>
HERBSTFERIEN == <<"H", "e", "r", "b", "s", "t", "f", "e", "r", "i", "e", "n">>
WEIHNACHTSFERIEN ==
    <<"W", "e", "i", "h", "n", "a", "c", "h", "t", "s", "f",
     "e", "r", "i", "e", "n">>

\* FALLBACK_HOLIDAYS, in insertion order: <<name, month, day>>, month 0 for None
FALLBACK_HOLIDAYS ==
    << <<NEUJAHR, 1, 1>>, <<KARFREITAG, 0, 0>>, <<OSTERMONTAG, 0, 0>>,
       <<TAG_DER_ARBEIT, 5, 1>>, <<CHRISTI_HIMMELFAHRT, 0, 0>>,
       <<PFINGSTMONTAG, 0, 0>>, <<TAG_DER_DEUTSCHEN_EINHEIT, 10, 3>>,
       <<WEIHNACHTEN, 12, 25>>, <<ZWEITER_WEIHNACHTSTAG, 12, 26>> >>

\* state_names.get(self.federal_state, self.federal_state.lower())
state_names(code) ==
    CASE code = <<"B", "W">> ->
          <<"b", "a", "d", "e", "n", "-", "w", "ü", "r", "t", "t", "e",
           "m", "b", "e", "r", "g">>
      [] code = <<"B", "Y">> -> <<"b", "a", "y", "e", "r", "n">>
      [] code = <<"B", "E">> -> <<"b", "e", "r", "l", "i", "n">>
      [] code = <<"B", "B">> ->
          <<"b", "r", "a", "n", "d", "e", "n", "b", "u", "r", "g">>
      [] code = <<"H", "B">> -> <<"b", "r", "e", "m", "e", "n">>
      [] code = <<"H", "H">> -> <<"h", "a", "m", "b", "u", "r", "g">>
      [] code = <<"H", "E">> -> <<"h", "e", "s", "s", "e", "n">>
      [] code = <<"M", "V">> ->
          <<"m", "e", "c", "k", "l", "e", "n", "b", "u", "r", "g", "-",
           "v", "o", "r", "p", "o", "m", "m", "e", "r", "n">>
      [] code = <<"N", "I">> ->
          <<"n", "i", "e", "d", "e", "r", "s", "a", "c", "h", "s", "e",
           "n">>
      [] code = <<"N", "W">> ->
          <<"n", "o", "r", "d", "r", "h", "e", "i", "n", "-", "w", "e",
           "s", "t", "f", "a", "l", "e", "n">>
      [] code = <<"R", "P">> ->
          <<"r", "h", "e", "i", "n", "l", "a", "n", "d", "-", "p", "f",
           "a", "l", "z">>
      [] code = <<"S", "L">> -> <<"s", "a", "a", "r", "l", "a", "n", "d">>
      [] code = <<"S", "N">> -> <<"s", "a", "c", "h", "s", "e", "n">>
      [] code = <<"S", "T">> ->
          <<"s", "a", "c", "h", "s", "e", "n", "-", "a", "n", "h", "a",
           "l", "t">>
      [] code = <<"S", "H">> ->
          <<"s", "c", "h", "l", "e", "s", "w", "i", "g", "-", "h", "o",
           "l", "s", "t", "e", "i", "n">>
      [] code = <<"T", "H">> ->
          <<"t", "h", "ü", "r", "i", "n", "g", "e", "n">>
      [] OTHER -> Lower(code)

(* ------------------------------------------------------------------ *)
(* The external holiday services.  A response is what requests.get     *)
(* yields for one call: ok = FALSE for a transport error or an HTTP     *)
(* error status, else the decoded JSON list.                            *)
(* ------------------------------------------------------------------ *)
\* the arithmetic of _calculate_easter with m left at 0
EasterMonthDayWithoutM(year) ==
    LET a == year % 19
        b == year \div 100
        c == year % 100
        d == b \div 4
        e == b % 4
        f == (b + 8) \div 25
        g == (b - f + 1) \div 3
        h == (19 * a + b - d - g + 15) % 30
        i == c \div 4
        k == c % 4
        l == (32 + 2 * e + 2 * i - h - k) % 7
        m == 0
        n == (h + l - 7 * m + 114) \div 31
        p == (h + l - 7 * m + 114) % 31
    IN  [month |-> n, day |-> p + 1]

\* the arithmetic of _calculate_easter: the month n and the day p + 1
EasterMonthDay(year) ==
    LET a == year % 19
        b == year \div 100
        c == year % 100
        d == b \div 4
        e == b % 4
        f == (b + 8) \div 25
        g == (b - f + 1) \div 3
        h == (19 * a + b - d - g + 15) % 30
        i == c \div 4
        k == c % 4
        l == (32 + 2 * e + 2 * i - h - k) % 7
        m == (a + 11 * h + 22 * l) \div 451
        n == (h + l - 7 * m + 114) \div 31
        p == (h + l - 7 * m + 114) % 31
    IN  [month |-> n, day |-> p + 1]

\* date(year, md.month, md.day)
DateOf(year, md) == Date(year, md.month, md.day)

\* HolidayFetcher._calculate_easter
calculate_easter(year) == DateOf(year, EasterMonthDay(year))

\* what date.nager.at answers for a year when it is up: entries for all of
\* Germany (no counties) and entries limited to some states
NagerPayload(year) ==
    << [date |-> DateStr(Date(year, 1, 1)), localName |-> NEUJAHR,
        counties |-> <<>>],
       [date |-> DateStr(Date(year, 1, 6)),
        localName |-> <<"H", "l", ".", " ", "3", " ", "K", "ö", "n", "i", "g", "e">>,
        counties |-> << <<"D", "E", "-", "B", "W">>, <<"D", "E", "-", "B", "Y">> >>],
       [date |-> DateStr(calculate_easter(year) - 2), localName |-> KARFREITAG,
        counties |-> <<>>],
       [date |-> DateStr(calculate_easter(year) + 1), localName |-> OSTERMONTAG,
        counties |-> <<>>],
       [date |-> DateStr(Date(year, 10, 31)),
        localName |-> <<"R", "e", "f", "o", "r", "m", "a", "t", "i", "o", "n">>,
        counties |-> << <<"D", "E", "-", "N", "I">>, <<"D", "E", "-", "B", "B">> >>] >>

\* what ferien-api.de answers for a year when it is up
FerienPayload(year) ==
    << [start |-> DateStr(calculate_easter(year) - 6),
        end |-> DateStr(calculate_easter(year) + 6)
                  \o <<"T", "0", "0", ":", "0", "0", ":", "0", "0", "Z">>,
        name |-> Lower(OSTERFERIEN)],
       [start |-> DateStr(Date(year, 8, 1)), end |-> DateStr(Date(year, 9, 10)),
        name |-> SOMMERFERIEN] >>

\* a payload of date.nager.at whose third entry carries a date that strptime
\* does not accept
NagerMalformed(year) ==
    [i \in 1..Len(NagerPayload(year)) |->
        IF i = 3
        THEN [NagerPayload(year)[i] EXCEPT !.date = <<"s", "o", "o", "n">>]
        ELSE NagerPayload(year)[i]]

\* a payload of ferien-api.de whose first entry carries a start that no format
\* of _parse_date accepts
FerienMalformed(year) ==
    [i \in 1..Len(FerienPayload(year)) |->
        IF i = 1
        THEN [FerienPayload(year)[i] EXCEPT !.start = <<"s", "o", "o", "n">>]
        ELSE FerienPayload(year)[i]]

\* the response of a service in a given condition
Response(mode, payload) ==
    CASE mode = "error" -> [ok |-> FALSE, data |-> <<>>]
      [] mode = "empty" -> [ok |-> TRUE, data |-> <<>>]
      [] mode = "ok" -> [ok |-> TRUE, data |-> payload]

\* what the two services answer for a year while in condition `services`
NagerResponse(services, year) ==
    IF services.pub = "malformed" THEN Response("ok", NagerMalformed(year))
    ELSE Response(services.pub, NagerPayload(year))
FerienResponse(services, year) ==
    IF services.school = "malformed" THEN Response("ok", FerienMalformed(year))
    ELSE Response(services.school, FerienPayload(year))

(* ------------------------------------------------------------------ *)
(* holiday_fetcher_improved.py: HolidayFetcher                         *)
(* ------------------------------------------------------------------ *)
\* a cache key that leaves the year out
state_key(federal_state, year) == federal_state

\* cache_key = f"{year}_{self.federal_state}"
cache_key(federal_state, year) == Str(year) \o <<"_">> \o federal_state

\* the loop of _fetch_from_primary_api over the payload; strptime raising on
\* an entry ends the loop with the entries stored so far
RECURSIVE NagerLoop(_, _, _)
NagerLoop(federal_state, data, holidays) ==
    IF data = <<>> THEN holidays
    ELSE LET holiday == Head(data) IN
         IF holiday.counties = <<>>
            \/ InList(<<"D", "E", "-">> \o federal_state, holiday.counties)
         THEN IF ParseYmd(holiday.date) = NoDate THEN holidays
              ELSE NagerLoop(federal_state, Tail(data),
                             DictSet(holidays, holiday.localName,
                                     ParseYmd(holiday.date)))
         ELSE NagerLoop(federal_state, Tail(data), holidays)

\* HolidayFetcher._fetch_from_primary_api
fetch_from_primary_api(federal_state, year, response) ==
    IF response.ok THEN NagerLoop(federal_state, response.data, <<>>) ELSE <<>>

\* the first loop of _get_fallback_holidays: the fixed-date holidays
RECURSIVE FixedHolidays(_, _, _)
FixedHolidays(year, table, holidays) ==
    IF table = <<>> THEN holidays
    ELSE LET name == Head(table)[1]
             month == Head(table)[2]
             day == Head(table)[3]
         IN  FixedHolidays(year, Tail(table),
                 IF month # 0 THEN DictSet(holidays, name, Date(year, month, day))
                 ELSE holidays)

\* HolidayFetcher._get_fallback_holidays
get_fallback_holidays(year) ==
    LET easter == calculate_easter(year)
        h0 == FixedHolidays(year, FALLBACK_HOLIDAYS, <<>>)
        h1 == DictSet(h0, KARFREITAG, easter - 2)
        h2 == DictSet(h1, OSTERSONNTAG, easter)
        h3 == DictSet(h2, OSTERMONTAG, easter + 1)
        h4 == DictSet(h3, CHRISTI_HIMMELFAHRT, easter + 39)
    IN  DictSet(h4, PFINGSTMONTAG, easter + 50)

\* the end of get_public_holidays and get_school_holidays: an empty result
\* of the fetch is replaced by the built-in calendar, the calendar is stored
\* under the cache key and returned; fetched tells that the service was asked
Resolved(cache, key, fetched, builtin) ==
    LET holidays == IF fetched = <<>> THEN builtin ELSE fetched
    IN  [ret |-> holidays, cache |-> (key :> holidays) @@ cache,
         fetched |-> TRUE]

\* get_public_holidays and get_school_holidays without their first two lines:
\* a calendar held under the cache key is not looked at
Refetched(cache, key, resolved) == resolved

\* the start of get_public_holidays and get_school_holidays: a calendar held
\* under the cache key is returned as it is, and the service is not asked
Cached(cache, key, resolved) ==
    IF key \in DOMAIN cache
    THEN [ret |-> cache[key], cache |-> cache, fetched |-> FALSE]
    ELSE resolved

\* get_public_holidays without the cache lookup: every call resolves anew
get_public_holidays_uncached(federal_state, cache, year, response) ==
    Resolved(cache, cache_key(federal_state, year),
             fetch_from_primary_api(federal_state, year, response),
             get_fallback_holidays(year))

\* HolidayFetcher.get_public_holidays: the value returned and the cache after
get_public_holidays(federal_state, cache, year, response) ==
    Cached(cache, cache_key(federal_state, year),
           Resolved(cache, cache_key(federal_state, year),
                    fetch_from_primary_api(federal_state, year, response),
                    get_fallback_holidays(year)))

\* HolidayFetcher._normalize_holiday_name
\* _normalize_holiday_name writing the year with its last two digits
NormalizedNameShortYear(name, name_lower, state_name, year_str) ==
    LET has_state == Contains(name_lower, state_name)
        has_year == Contains(name, year_str)
        yy == SubSeq(year_str, 3, 4)
    IN  IF ~has_state /\ ~has_year
        THEN name_lower \o <<" ">> \o state_name \o <<" ">> \o yy
        ELSE IF ~has_state
        THEN Strip(Remove(name_lower, year_str) \o <<" ">> \o state_name
                   \o <<" ">> \o yy)
        ELSE IF ~has_year
        THEN name_lower \o <<" ">> \o yy
        ELSE name_lower

\* the branches of _normalize_holiday_name on has_state and has_year
NormalizedName(name, name_lower, state_name, year_str) ==
    LET has_state == Contains(name_lower, state_name)
        has_year == Contains(name, year_str)
    IN  IF ~has_state /\ ~has_year
        THEN name_lower \o <<" ">> \o state_name \o <<" ">> \o year_str
        ELSE IF ~has_state
        THEN Strip(Remove(name_lower, year_str) \o <<" ">> \o state_name
                   \o <<" ">> \o year_str)
        ELSE IF ~has_year
        THEN name_lower \o <<" ">> \o year_str
        ELSE name_lower

normalize_holiday_name(federal_state, name, year) ==
    NormalizedName(name, Lower(name), state_names(federal_state), Str(year))

\* if start and end: holidays.append((start, end, normalized_name))
WithHoliday(holidays, start, end, normalized_name) ==
    IF start # NoDate /\ end # NoDate
    THEN Append(holidays, <<start, end, normalized_name>>)
    ELSE holidays

\* the loop of _fetch_school_holidays_api over the payload: an entry whose
\* start or end does not parse is skipped
RECURSIVE FerienLoop(_, _, _, _)
FerienLoop(federal_state, year, data, holidays) ==
    IF data = <<>> THEN holidays
    ELSE FerienLoop(federal_state, year, Tail(data),
             WithHoliday(holidays, parse_date(Head(data).start),
                         parse_date(Head(data).end),
                         normalize_holiday_name(federal_state, Head(data).name,
                                                year)))

\* HolidayFetcher._fetch_school_holidays_api
fetch_school_holidays_api(federal_state, year, response) ==
    IF response.ok THEN FerienLoop(federal_state, year, response.data, <<>>)
    ELSE <<>>

\* HolidayFetcher._get_typical_school_holidays
get_typical_school_holidays(federal_state, year) ==
    LET easter == calculate_easter(year)
        N(name) == normalize_holiday_name(federal_state, name, year)
        summer == IF federal_state \in {<<"B", "Y">>, <<"B", "W">>}
                  THEN <<Date(year, 7, 25), Date(year, 9, 7), N(SOMMERFERIEN)>>
                  ELSE <<Date(year, 7, 1), Date(year, 8, 15), N(SOMMERFERIEN)>>
        holidays ==
            << <<Date(year, 2, 10), Date(year, 2, 24), N(WINTERFERIEN)>>,
               <<easter - 7, easter + 7, N(OSTERFERIEN)>>,
               <<easter + 49, easter + 56, N(PFINGSTFERIEN)>>,
               summer,
               <<Date(year, 10, 14), Date(year, 10, 25), N(HERBSTFERIEN)>>,
               <<Date(year, 12, 23), Date(year, 12, 31), N(WEIHNACHTSFERIEN)>> >>
    IN  holidays \o
        (IF year < 2100
         THEN << <<Date(year + 1, 1, 1), Date(year + 1, 1, 6),
                   N(WEIHNACHTSFERIEN)>> >>
         ELSE <<>>)

\* HolidayFetcher.get_school_holidays: the value returned and the cache after
get_school_holidays(federal_state, cache, year, response) ==
    Cached(cache, cache_key(federal_state, year),
           Resolved(cache, cache_key(federal_state, year),
                    fetch_school_holidays_api(federal_state, year, response),
                    get_typical_school_holidays(federal_state, year)))

\* What leaves the fetcher as an exception.  requests.get raising, a status
\* that raise_for_status turns into an exception and a body that is no JSON
\* are the response that is not ok.
\* a try block ended by `except Exception as e: print(...)`: with the
\* handler taken away, what is raised in the block leaves it
Unguarded(raises) == raises

\* try: ... except Exception as e: print(...): nothing raised in the block
\* leaves it
TryExcept(raises) == FALSE

\* datetime.strptime raises in the loop of _fetch_from_primary_api
NagerLoopRaises(federal_state, data) ==
    \E i \in 1..Len(data) :
        /\ \/ data[i].counties = <<>>
           \/ InList(<<"D", "E", "-">> \o federal_state, data[i].counties)
        /\ ParseYmd(data[i].date) = NoDate

\* _fetch_from_primary_api raises
fetch_from_primary_api_raises(federal_state, response) ==
    TryExcept(~response.ok \/ NagerLoopRaises(federal_state, response.data))

\* _fetch_school_holidays_api raises; _parse_date contains its own ValueError
fetch_school_holidays_api_raises(response) == TryExcept(~response.ok)

\* get_public_holidays raises
get_public_holidays_raises(federal_state, cache, year, response) ==
    /\ cache_key(federal_state, year) \notin DOMAIN cache
    /\ TryExcept(fetch_from_primary_api_raises(federal_state, response))

\* get_school_holidays raises
get_school_holidays_raises(federal_state, cache, year, response) ==
    /\ cache_key(federal_state, year) \notin DOMAIN cache
    /\ TryExcept(fetch_school_holidays_api_raises(response))

\* a loop that stops at the first entry passing its test: the least of the
\* indices that pass, 0 when none does
FirstIndex(passing) ==
    IF passing = {} THEN 0 ELSE CHOOSE i \in passing : \A j \in passing : i <= j

\* what categorize_date returns for a date that is neither a public holiday
\* nor in the school holidays
WeekendOrNormal(check_date) ==
    IF Weekday(check_date) \in {5, 6}
    THEN [category |-> "weekend",
          description |-> <<"K", "W">> \o Str(IsoWeek(check_date))]
    ELSE [category |-> "normal",
          description |-> <<"N", "o", "r", "m", "a", "l", " ", "d", "a", "y">>]

\* the body of categorize_date with the school-holiday check moved before
\* the public-holiday check
CategoryOfSchoolFirst(check_date, pub, school, school_holidays_cache) ==
    LET hi == FirstIndex({i \in 1..Len(pub.ret) : check_date = pub.ret[i][2]})
        si == FirstIndex({i \in 1..Len(school.ret) :
                             school.ret[i][1] <= check_date
                             /\ check_date <= school.ret[i][2]})
    IN  [holidays_cache |-> pub.cache, school_holidays_cache |-> school.cache]
        @@ (IF si # 0
            THEN [category |-> "school_holiday", description |-> school.ret[si][3]]
            ELSE IF hi # 0
            THEN [category |-> "public_holiday", description |-> pub.ret[hi][1]]
            ELSE WeekendOrNormal(check_date))

\* the body of categorize_date, pub and school being what get_public_holidays
\* and get_school_holidays return: the (category, description) returned and
\* the two caches after the call.  The school-holiday list is only asked for
\* when the date is no public holiday.
CategoryOf(check_date, pub, school, school_holidays_cache) ==
    LET hi == FirstIndex({i \in 1..Len(pub.ret) : check_date = pub.ret[i][2]})
        si == FirstIndex({i \in 1..Len(school.ret) :
                             school.ret[i][1] <= check_date
                             /\ check_date <= school.ret[i][2]})
    IN  IF hi # 0
        THEN [category |-> "public_holiday", description |-> pub.ret[hi][1],
              holidays_cache |-> pub.cache,
              school_holidays_cache |-> school_holidays_cache]
        ELSE [holidays_cache |-> pub.cache, school_holidays_cache |-> school.cache]
             @@ (IF si # 0
                 THEN [category |-> "school_holiday",
                       description |-> school.ret[si][3]]
                 ELSE WeekendOrNormal(check_date))

\* the first loop of get_weekends: the first Saturday from current_date on
RECURSIVE FirstSaturday(_)
FirstSaturday(current_date) ==
    IF Weekday(current_date) # 5 THEN FirstSaturday(current_date + 1)
    ELSE current_date

\* the second loop of get_weekends: one Saturday a week while it lies in the
\* year; the pair is kept when its Sunday lies in the year too
RECURSIVE WeekendLoop(_, _, _)
WeekendLoop(year, current_date, weekends) ==
    IF YearOf(current_date) # year THEN weekends
    ELSE WeekendLoop(year, current_date + 7,
             IF YearOf(current_date + 1) = year
             THEN Append(weekends, <<current_date, current_date + 1,
                                     IsoWeek(current_date)>>)
             ELSE weekends)

\* HolidayFetcher.get_weekends
get_weekends(year) == WeekendLoop(year, FirstSaturday(Date(year, 1, 1)), <<>>)

\* categorize_date raises: it does when one of the two calls it makes does
categorize_date_raises(federal_state, holidays_cache, school_holidays_cache, year, pub_response, school_response) ==
    \/ get_public_holidays_raises(federal_state, holidays_cache, year,
                                  pub_response)
    \/ get_school_holidays_raises(federal_state, school_holidays_cache, year,
                                  school_response)

\* HolidayFetcher.categorize_date
categorize_date(federal_state, holidays_cache, school_holidays_cache, check_date, year, pub_response, school_response) ==
    CategoryOf(check_date,
               get_public_holidays(federal_state, holidays_cache, year,
                                   pub_response),
               get_school_holidays(federal_state, school_holidays_cache, year,
                                   school_response),
               school_holidays_cache)

(* ------------------------------------------------------------------ *)
(* load_profile_processor.py: LoadProfileProcessor                     *)
(*                                                                     *)
(* The parsed series is held grouped by date: one entry per date with  *)
(* the number n of its rows, the load of its first row, the minute of  *)
(* the day of its first row and the minutes from one row to the next;  *)
(* row i of a date carries load + i and the minute first + i * step.   *)
(* A chunk is the rows of one date.                                    *)
(* ------------------------------------------------------------------ *)
\* source_chunk.iloc[i]['load']
ChunkLoad(chunk, i) == chunk.load + i

\* source_chunk.iloc[i]['timestamp'], as the minute of the day
ChunkMinute(chunk, i) == chunk.first + i * chunk.step

\* df.groupby('date', sort=False): the groups in the order of their rows
GroupsAsHandedOver(df) == df

\* the groups of df.groupby('date'): in ascending date order
RECURSIVE GroupByDate(_)
GroupByDate(df) ==
    IF df = <<>> THEN <<>>
    ELSE LET m == CHOOSE i \in 1..Len(df) : \A j \in 1..Len(df) : df[i].date <= df[j].date
         IN  <<df[m]>> \o GroupByDate([i \in 1..(Len(df) - 1) |->
                                          IF i < m THEN df[i] ELSE df[i + 1]])

\* the test of chunk_by_days with >= for ==
AtLeastFullDay(group) == group.n >= INTERVALS_PER_DAY

\* the test of chunk_by_days that lets a group enter daily_chunks
IsFullDay(group) == group.n = INTERVALS_PER_DAY

\* LoadProfileProcessor.chunk_by_days: <<day, chunk>> in dict order
RECURSIVE ChunkLoop(_)
ChunkLoop(groups) ==
    IF groups = <<>> THEN <<>>
    ELSE LET group == Head(groups) IN
         (IF IsFullDay(group)
          THEN << <<group.date, [len |-> group.n, load |-> group.load,
                                 first |-> group.first, step |-> group.step]>> >>
          ELSE <<>>) \o ChunkLoop(Tail(groups))

chunk_by_days(df) == ChunkLoop(GroupByDate(df))

\* the four empty buckets categorize_days starts from
EmptyCategorized ==
    [public_holiday |-> <<>>, school_holiday |-> <<>>, weekend |-> <<>>,
     normal |-> <<>>]

\* categorized[category].append((day, chunk, description)), c being what
\* categorize_date has returned for the day
Filed(categorized, day, chunk, c) ==
    [categorized |->
        [categorized EXCEPT ![c.category] = Append(@, <<day, chunk, c.description>>)],
     holidays_cache |-> c.holidays_cache,
     school_holidays_cache |-> c.school_holidays_cache]

\* categorize_date(day, day.year) with the services in a given condition
categorize_day(federal_state, hc, sc, day, year, services) ==
    categorize_date(federal_state, hc, sc, day, year,
                    NagerResponse(services, year), FerienResponse(services, year))

\* categorize_days asking categorize_date about every day against one year,
\* the year 2026
RECURSIVE categorize_days_one_year(_, _, _, _)
categorize_days_one_year(federal_state, st, daily_chunks, services) ==
    IF daily_chunks = <<>> THEN st
    ELSE categorize_days_one_year(federal_state,
             Filed(st.categorized, Head(daily_chunks)[1], Head(daily_chunks)[2],
                   categorize_day(federal_state, st.holidays_cache,
                                  st.school_holidays_cache, Head(daily_chunks)[1],
                                  2026, services)),
             Tail(daily_chunks), services)

\* LoadProfileProcessor.categorize_days: every day is categorized against its
\* own year; st holds the buckets and the fetcher's caches after the days
\* handled so far
RECURSIVE categorize_days(_, _, _, _)
categorize_days(federal_state, st, daily_chunks, services) ==
    IF daily_chunks = <<>> THEN st
    ELSE categorize_days(federal_state,
             Filed(st.categorized, Head(daily_chunks)[1], Head(daily_chunks)[2],
                   categorize_day(federal_state, st.holidays_cache,
                                  st.school_holidays_cache, Head(daily_chunks)[1],
                                  YearOf(Head(daily_chunks)[1]), services)),
             Tail(daily_chunks), services)

\* the source_info f-strings of map_to_future_year, kept as their parts
SourceInfo(kind, desc, src_date) == [kind |-> kind, desc |-> desc, from |-> src_date]

\* the string an f-string of map_to_future_year evaluates to
Render(info) ==
    CASE info.kind = "Holiday" ->
            <<"H", "o", "l", "i", "d", "a", "y", ":", " ">> \o info.desc
                \o <<" ", "f", "r", "o", "m", " ">> \o DateStr(info.from)
      [] info.kind = "School holiday" ->
            <<"S", "c", "h", "o", "o", "l", " ", "h", "o", "l", "i", "d", "a", "y",
              ":", " ">> \o info.desc
                \o <<" ", "f", "r", "o", "m", " ">> \o DateStr(info.from)
      [] info.kind = "Weekend" ->
            <<"W", "e", "e", "k", "e", "n", "d", " ">> \o info.desc
                \o <<" ", "f", "r", "o", "m", " ">> \o DateStr(info.from)
      [] info.kind = "Normal day" ->
            <<"N", "o", "r", "m", "a", "l", " ", "d", "a", "y", " ", "f", "r", "o",
              "m", " ">> \o DateStr(info.from)
      [] OTHER -> <<>>

\* source_chunk is None, source_info = ""
NoSelection == [chunk |-> [len |-> 0, load |-> 0, first |-> 0, step |-> 0], info |-> SourceInfo("", <<>>, NoDate),
                rule |-> "none", index |-> 0]

\* a selection: the chunk, its source_info, and the branch that assigned it
\* (rule) with the position of the chosen day in its bucket (index)
Selected(kind, entry, rule, index) ==
    [chunk |-> entry[2], info |-> SourceInfo(kind, entry[3], entry[1]),
     rule |-> rule, index |-> index]

\* map_to_future_year, category == 'public_holiday'
SamePublicHoliday(src_desc, description) == src_desc = description

\* select_public_holiday with the fallback taking the last day of the bucket
select_public_holiday_last(bucket, description) ==
    LET i == FirstIndex({j \in 1..Len(bucket) :
                            SamePublicHoliday(bucket[j][3], description)})
    IN  IF i # 0 THEN Selected("Holiday", bucket[i], "match", i)
        ELSE IF bucket # <<>>
        THEN Selected("Holiday", bucket[Len(bucket)], "fallback", Len(bucket))
        ELSE NoSelection

select_public_holiday(bucket, description) ==
    LET i == FirstIndex({j \in 1..Len(bucket) :
                            SamePublicHoliday(bucket[j][3], description)})
    IN  IF i # 0 THEN Selected("Holiday", bucket[i], "match", i)
        ELSE IF bucket # <<>> THEN Selected("Holiday", bucket[1], "fallback", 1)
        ELSE NoSelection

\* map_to_future_year, category == 'school_holiday'
SameSchoolHoliday(src_desc, description) ==
    \/ Contains(Lower(description), Lower(src_desc))
    \/ Contains(Lower(src_desc), Lower(description))

select_school_holiday(bucket, description) ==
    LET i == FirstIndex({j \in 1..Len(bucket) :
                            SameSchoolHoliday(bucket[j][3], description)})
    IN  IF i # 0 THEN Selected("School holiday", bucket[i], "match", i)
        ELSE IF bucket # <<>>
        THEN Selected("School holiday", bucket[1], "fallback", 1)
        ELSE NoSelection

\* map_to_future_year, category == 'weekend'
SameWeek(src_desc, week_num) == Contains(src_desc, <<"K", "W">> \o Str(week_num))

\* select_weekend without the modulo fallback
select_weekend_no_fallback(bucket, current_date) ==
    LET week_num == IsoWeek(current_date)
        i == FirstIndex({j \in 1..Len(bucket) : SameWeek(bucket[j][3], week_num)})
    IN  IF i # 0 THEN Selected("Weekend", bucket[i], "match", i)
        ELSE NoSelection

\* select_weekend with the weekday added to the week number in the fallback
select_weekend_by_weekday(bucket, current_date) ==
    LET week_num == IsoWeek(current_date)
        i == FirstIndex({j \in 1..Len(bucket) : SameWeek(bucket[j][3], week_num)})
        idx == (week_num + Weekday(current_date)) % Len(bucket)
    IN  IF i # 0 THEN Selected("Weekend", bucket[i], "match", i)
        ELSE IF bucket # <<>>
        THEN Selected("Weekend", bucket[idx + 1], "fallback", idx + 1)
        ELSE NoSelection

\* select_weekend with the fallback taking the first day of the bucket
select_weekend_first(bucket, current_date) ==
    LET week_num == IsoWeek(current_date)
        i == FirstIndex({j \in 1..Len(bucket) : SameWeek(bucket[j][3], week_num)})
    IN  IF i # 0 THEN Selected("Weekend", bucket[i], "match", i)
        ELSE IF bucket # <<>> THEN Selected("Weekend", bucket[1], "fallback", 1)
        ELSE NoSelection

select_weekend(bucket, current_date) ==
    LET week_num == IsoWeek(current_date)
        i == FirstIndex({j \in 1..Len(bucket) : SameWeek(bucket[j][3], week_num)})
        idx == week_num % Len(bucket)
    IN  IF i # 0 THEN Selected("Weekend", bucket[i], "match", i)
        ELSE IF bucket # <<>>
        THEN Selected("Weekend", bucket[idx + 1], "fallback", idx + 1)
        ELSE NoSelection

\* map_to_future_year, normal day: the scan for best_match; best is the
\* index of best_match so far (0 for None, best_diff = inf)
\* the comparison of the scan with <= for <
CloserOrEqual(diff, best_diff) == diff <= best_diff

Closer(diff, best_diff) == diff < best_diff

RECURSIVE BestMatch(_, _, _, _, _)
BestMatch(bucket, i, current_date, best, best_diff) ==
    IF i > Len(bucket) THEN best
    ELSE LET src_date == bucket[i][1]
             diff == IF DayOfYear(src_date) >= DayOfYear(current_date)
                     THEN DayOfYear(src_date) - DayOfYear(current_date)
                     ELSE DayOfYear(current_date) - DayOfYear(src_date)
         IN  IF Weekday(src_date) = Weekday(current_date)
                /\ (best = 0 \/ Closer(diff, best_diff))
             THEN BestMatch(bucket, i + 1, current_date, i, diff)
             ELSE BestMatch(bucket, i + 1, current_date, best, best_diff)

select_normal(bucket, current_date) ==
    LET i == BestMatch(bucket, 1, current_date, 0, 0)
    IN  IF i # 0
        THEN [chunk |-> bucket[i][2],
              info |-> SourceInfo("Normal day", <<>>, bucket[i][1]),
              rule |-> "match", index |-> i]
        ELSE NoSelection

\* datetime.combine(current_date, datetime.min.time()) + timedelta(minutes):
\* the date and the minute of the day
Timestamp(current_date, minutes) ==
    [date |-> current_date + (minutes \div (24 * 60)), minute |-> minutes % (24 * 60)]

\* AppliedChunk reading the chunk from its second row on
AppliedChunkFromSecond(current_date, source_chunk, source_info) ==
    [k \in 1..INTERVALS_PER_DAY |->
        [timestamp |-> Timestamp(current_date, (k - 1) * INTERVAL_MINUTES),
         load |-> ChunkLoad(source_chunk, k % source_chunk.len),
         source |-> source_info]]

\* map_to_future_year, "apply the chunk to target date": the records the
\* inner loop appends to result_data, record k being that of i = k - 1
AppliedChunk(current_date, source_chunk, source_info) ==
    [k \in 1..INTERVALS_PER_DAY |->
        [timestamp |-> Timestamp(current_date, (k - 1) * INTERVAL_MINUTES),
         load |-> ChunkLoad(source_chunk, (k - 1) % source_chunk.len),
         source |-> source_info]]

\* select_source with the school-holiday branch reading the weekend bucket
select_source_crossed(categorized_source, category, description, current_date) ==
    IF category = "public_holiday"
    THEN select_public_holiday(categorized_source.public_holiday, description)
    ELSE IF category = "school_holiday"
    THEN select_school_holiday(categorized_source.weekend, description)
    ELSE IF category = "weekend"
    THEN select_weekend(categorized_source.weekend, current_date)
    ELSE select_normal(categorized_source.normal, current_date)

\* the branch of map_to_future_year on the target date's category
select_source(categorized_source, category, description, current_date) ==
    IF category = "public_holiday"
    THEN select_public_holiday(categorized_source.public_holiday, description)
    ELSE IF category = "school_holiday"
    THEN select_school_holiday(categorized_source.school_holiday, description)
    ELSE IF category = "weekend"
    THEN select_weekend(categorized_source.weekend, current_date)
    ELSE select_normal(categorized_source.normal, current_date)

(* ------------------------------------------------------------------ *)
(* State                                                               *)
(* ------------------------------------------------------------------ *)
VARIABLES
    federal_state,          \* HolidayFetcher.federal_state
    holidays_cache,         \* HolidayFetcher.holidays_cache
    school_holidays_cache,  \* HolidayFetcher.school_holidays_cache
    api,                    \* the condition of the two external services
    source_df,              \* the parsed source series, grouped by date
    categorized_source,     \* the buckets built by categorize_days
    target_years,           \* the target years still to be generated
    target_year,            \* map_to_future_year's target_year
    current_date,           \* map_to_future_year's loop variable
    result_data,            \* map_to_future_year's result_data, one entry per day
                            \* for the records appended for that day
    results,                \* generate_future_profiles' results
    last,                   \* the locals of the latest call or loop iteration,
                            \* with the records that iteration has appended
    first,                  \* the first categorize_date call made and its result
    pc                      \* the position in generate_future_profiles

vars == <<federal_state, holidays_cache, school_holidays_cache, api, source_df,
          categorized_source, target_years, target_year, current_date,
          result_data, results, last, first, pc>>

(* ------------------------------------------------------------------ *)
(* Bounds and inputs                                                   *)
(* ------------------------------------------------------------------ *)
\* the number of consecutive complete days of one recorded stretch
RunLen == 4
\* the number of recorded stretches a source series is made of, at most
MaxRuns == 2

BW == <<"B", "W">>

\* the first days of the recorded stretches a source series may hold, in the
\* order in which their rows are handed over
Anchors ==
    << Date(2024, 3, 28), Date(2022, 2, 5), Date(2024, 1, 30), Date(2022, 1, 2),
       Date(2024, 2, 9), Date(2024, 1, 16) >>

\* the target_years handed to generate_future_profiles: one year, or a year
\* asked for before and after another one
TargetRuns == {<<2024>>, <<2026, 2024, 2026>>}

\* both services down, or both up
ApiConditions == {[pub |-> "error", school |-> "error"],
                  [pub |-> "ok", school |-> "ok"]}

\* the date groups of a series made of the stretches at the anchors in S: each
\* stretch is RunLen complete days followed by a day whose recording breaks off
RECURSIVE SeriesFrom(_, _, _)
SeriesFrom(S, k, pos) ==
    IF k > Len(Anchors) THEN <<>>
    ELSE IF k \in S
    THEN [i \in 1..(RunLen + 1) |->
             [date |-> Anchors[k] + i - 1,
              n |-> IF i <= RunLen THEN INTERVALS_PER_DAY ELSE INTERVALS_PER_DAY - 1,
              load |-> 1000 + 100 * (pos + i),
              first |-> 0, step |-> INTERVAL_MINUTES]]
         \o SeriesFrom(S, k + 1, pos + RunLen + 1)
    ELSE SeriesFrom(S, k + 1, pos)

SourceSeries ==
    {SeriesFrom(S, 1, 0) :
        S \in {T \in SUBSET (1..Len(Anchors)) : Cardinality(T) <= MaxRuns}}

NoCall == [date |-> NoDate, year |-> 0, category |-> "", description |-> <<>>,
           sel |-> NoSelection, services |-> [pub |-> "", school |-> ""]]

(* ------------------------------------------------------------------ *)
(* generate_future_profiles                                            *)
(* ------------------------------------------------------------------ *)
Init ==
    /\ federal_state = BW
    /\ holidays_cache = <<>>
    /\ school_holidays_cache = <<>>
    /\ api \in ApiConditions
    /\ source_df \in SourceSeries
    /\ categorized_source = EmptyCategorized
    /\ target_years \in TargetRuns
    /\ target_year = 0
    /\ current_date = NoDate
    /\ result_data = <<>>
    /\ results = <<>>
    /\ last = NoCall
    /\ first = NoCall
    /\ pc = "loaded"

\* generate_future_profiles: chunk_by_days, then categorize_days
CategorizeSource ==
    /\ pc = "loaded"
    /\ \E st \in {categorize_days(federal_state,
                        [categorized |-> EmptyCategorized,
                         holidays_cache |-> holidays_cache,
                         school_holidays_cache |-> school_holidays_cache],
                        chunk_by_days(source_df), api)} :
          /\ categorized_source' = st.categorized
          /\ holidays_cache' = st.holidays_cache
          /\ school_holidays_cache' = st.school_holidays_cache
    /\ pc' = "categorized"
    /\ UNCHANGED <<federal_state, api, source_df, target_years, target_year,
                   current_date, result_data, results, last, first>>

\* map_to_future_year up to its loop: the target year's calendars are asked
\* for, which fills the caches; the locals of the loop are those of this call
MapStart ==
    /\ pc = "categorized"
    /\ target_years # <<>>
    /\ LET year == Head(target_years)
           pub == get_public_holidays(federal_state, holidays_cache, year,
                                      NagerResponse(api, year))
           school == get_school_holidays(federal_state, school_holidays_cache,
                                         year, FerienResponse(api, year))
       IN  /\ target_year' = year
           /\ holidays_cache' = pub.cache
           /\ school_holidays_cache' = school.cache
           /\ current_date' = Date(year, 1, 1)
    /\ result_data' = <<>>
    /\ last' = NoCall
    /\ pc' = "mapping"
    /\ UNCHANGED <<federal_state, api, source_df, categorized_source,
                   target_years, results, first>>

\* map_to_future_year appending the day only while no year has been returned
WithMappedDayFirstRun(rows, day, sel) ==
    IF sel.rule # "none" /\ results = <<>>
    THEN Append(rows,
                [date |-> day, chunk |-> sel.chunk, source |-> sel.info])
    ELSE rows

\* if source_chunk is not None: the rows of the day are appended
WithMappedDay(rows, day, sel) ==
    IF sel.rule # "none"
    THEN Append(rows,
                [date |-> day, chunk |-> sel.chunk, source |-> sel.info])
    ELSE rows

\* the end of the loop body going two days on
TwoDaysOn(day) == day + 2

\* current_date = (pd.Timestamp(current_date) + pd.Timedelta(days=1)).date()
NextDay(day) == day + 1

\* one iteration of the loop of map_to_future_year
MapDay ==
    /\ pc = "mapping"
    /\ current_date <= Date(target_year, 12, 31)
    /\ \E c \in {categorize_day(federal_state, holidays_cache,
                                 school_holidays_cache, current_date,
                                 target_year, api)} :
       \E sel \in {select_source(categorized_source, c.category, c.description,
                                 current_date)} :
          /\ holidays_cache' = c.holidays_cache
          /\ school_holidays_cache' = c.school_holidays_cache
          /\ result_data' = WithMappedDay(result_data, current_date, sel)
          /\ last' = [date |-> current_date, year |-> target_year,
                      category |-> c.category, description |-> c.description,
                      sel |-> sel, services |-> api,
                      records |-> IF sel.rule # "none"
                                  THEN AppliedChunk(current_date, sel.chunk,
                                                    sel.info)
                                  ELSE <<>>]
    /\ current_date' = NextDay(current_date)
    /\ UNCHANGED <<federal_state, api, source_df, categorized_source,
                   target_years, target_year, results, first, pc>>

\* the loop of map_to_future_year is over: the frame is returned and stored
MapReturn ==
    /\ pc = "mapping"
    /\ current_date > Date(target_year, 12, 31)
    /\ results' = (target_year :> result_data) @@ results
    /\ target_years' = Tail(target_years)
    /\ result_data' = <<>>
    /\ pc' = "categorized"
    /\ UNCHANGED <<federal_state, holidays_cache, school_holidays_cache, api,
                   source_df, categorized_source, target_year, current_date,
                   last, first>>

\* generate_future_profiles returns
Finish ==
    /\ pc = "categorized"
    /\ target_years = <<>>
    /\ pc' = "done"
    /\ UNCHANGED <<federal_state, holidays_cache, school_holidays_cache, api,
                   source_df, categorized_source, target_years, target_year,
                   current_date, result_data, results, last, first>>

Next == CategorizeSource \/ MapStart \/ MapDay \/ MapReturn \/ Finish

Spec == Init /\ [][Next]_vars

(* ------------------------------------------------------------------ *)
(* A HolidayFetcher on its own: categorize_date is called again and    *)
(* again while the external services come and go.                      *)
(* ------------------------------------------------------------------ *)
\* the conditions the two services can be in
ServiceConditions ==
    {[pub |-> "error", school |-> "error"], [pub |-> "ok", school |-> "ok"],
     [pub |-> "ok", school |-> "empty"],
     [pub |-> "malformed", school |-> "malformed"]}

\* the years the calendars are asked for
ProbeYears == {2024, 2026}

\* the (check_date, year) arguments of the calls
ProbeCalls ==
    { <<calculate_easter(2024), 2024>>, <<Date(2024, 1, 6), 2024>>,
      <<Date(2026, 10, 14), 2026>> }

FetcherInit ==
    /\ federal_state = BW
    /\ holidays_cache = <<>>
    /\ school_holidays_cache = <<>>
    /\ api \in ServiceConditions
    /\ source_df = <<>>
    /\ categorized_source = EmptyCategorized
    /\ target_years = <<>>
    /\ target_year = 0
    /\ current_date = NoDate
    /\ result_data = <<>>
    /\ results = <<>>
    /\ last = NoCall
    /\ first = NoCall
    /\ pc = "fetcher"

\* a service goes down, comes back, or starts answering with an empty list
ServicesChange ==
    /\ pc = "fetcher"
    /\ api' \in ServiceConditions \ {api}
    /\ UNCHANGED <<federal_state, holidays_cache, school_holidays_cache,
                   source_df, categorized_source, target_years, target_year,
                   current_date, result_data, results, last, first, pc>>

\* HolidayFetcher.categorize_date(check_date, year)
CallCategorize ==
    /\ pc = "fetcher"
    /\ \E call \in ProbeCalls :
       \E c \in {categorize_day(federal_state, holidays_cache,
                                 school_holidays_cache, call[1], call[2], api)} :
          /\ holidays_cache' = c.holidays_cache
          /\ school_holidays_cache' = c.school_holidays_cache
          /\ last' = [date |-> call[1], year |-> call[2],
                      category |-> c.category, description |-> c.description,
                      sel |-> NoSelection, services |-> api,
                      op |-> "categorize_date",
                      fetched |-> cache_key(federal_state, call[2])
                                     \notin DOMAIN holidays_cache,
                      raised |-> categorize_date_raises(federal_state,
                                     holidays_cache, school_holidays_cache,
                                     call[2], NagerResponse(api, call[2]),
                                     FerienResponse(api, call[2]))]
          /\ first' = IF first.date = NoDate THEN last' ELSE first
    /\ UNCHANGED <<federal_state, api, source_df, categorized_source,
                   target_years, target_year, current_date, result_data,
                   results, pc>>

\* what a call of get_public_holidays or get_school_holidays leaves to be
\* looked at: r is what the call returned, held the cache before the call
Called(op, year, key, held, r, raised) ==
    [date |-> NoDate, year |-> year, category |-> "", description |-> <<>>,
     sel |-> NoSelection, services |-> api, op |-> op, key |-> key,
     hit |-> key \in DOMAIN held,
     held |-> IF key \in DOMAIN held THEN held[key] ELSE <<>>,
     ret |-> r.ret, fetched |-> r.fetched, raised |-> raised]

\* HolidayFetcher.get_public_holidays(year)
CallGetPublicHolidays ==
    /\ pc = "fetcher"
    /\ \E year \in ProbeYears :
       \E r \in {get_public_holidays(federal_state, holidays_cache, year,
                                     NagerResponse(api, year))} :
          /\ holidays_cache' = r.cache
          /\ last' = Called("get_public_holidays", year,
                            cache_key(federal_state, year), holidays_cache, r,
                            get_public_holidays_raises(federal_state,
                                holidays_cache, year, NagerResponse(api, year)))
    /\ UNCHANGED <<federal_state, school_holidays_cache, api, source_df,
                   categorized_source, target_years, target_year, current_date,
                   result_data, results, first, pc>>

\* HolidayFetcher.get_school_holidays(year)
CallGetSchoolHolidays ==
    /\ pc = "fetcher"
    /\ \E year \in ProbeYears :
       \E r \in {get_school_holidays(federal_state, school_holidays_cache,
                                     year, FerienResponse(api, year))} :
          /\ school_holidays_cache' = r.cache
          /\ last' = Called("get_school_holidays", year,
                            cache_key(federal_state, year),
                            school_holidays_cache, r,
                            get_school_holidays_raises(federal_state,
                                school_holidays_cache, year,
                                FerienResponse(api, year)))
    /\ UNCHANGED <<federal_state, holidays_cache, api, source_df,
                   categorized_source, target_years, target_year, current_date,
                   result_data, results, first, pc>>

FetcherNext == ServicesChange \/ CallCategorize

FetcherSpec == FetcherInit /\ [][FetcherNext]_vars

\* a HolidayFetcher whose calendars are asked for again and again while the
\* external services come and go
CalendarNext ==
    \/ ServicesChange
    \/ CallGetPublicHolidays
    \/ CallGetSchoolHolidays

CalendarSpec == FetcherInit /\ [][CalendarNext]_vars

(* ------------------------------------------------------------------ *)
(* Single calls of the functions of the two classes, on arguments      *)
(* drawn from the sets below; last holds the arguments and the value   *)
(* returned.                                                           *)
(* ------------------------------------------------------------------ *)
\* the federal states a fetcher is built for
States == {BW, <<"N", "I">>}

\* holiday names without a year, as the built-in calendar and the service
\* write them
BaseNames ==
    { WINTERFERIEN, Lower(OSTERFERIEN),
      Lower(SOMMERFERIEN) \o <<" ">> \o state_names(BW),
      HERBSTFERIEN \o <<" ">> \o BW }

\* the years a calendar is asked for
NameYears == {2024, 2025, 2026}

\* a name as delivered for a year: as it is ("none"), followed by the year
\* asked for ("asked"), or followed by one and the same year ("fixed")
NameFor(base, kind, year) ==
    CASE kind = "none" -> base
      [] kind = "asked" -> base \o <<" ">> \o Str(year)
      [] kind = "fixed" -> base \o <<" ">> \o Str(2024)

CallsInit ==
    /\ federal_state \in States
    /\ holidays_cache = <<>>
    /\ school_holidays_cache = <<>>
    /\ api = [pub |-> "error", school |-> "error"]
    /\ source_df = <<>>
    /\ categorized_source = EmptyCategorized
    /\ target_years = <<>>
    /\ target_year = 0
    /\ current_date = NoDate
    /\ result_data = <<>>
    /\ results = <<>>
    /\ last = [op |-> "none"]
    /\ first = NoCall
    /\ pc = "calls"

\* HolidayFetcher._normalize_holiday_name(name, year), for two years
CallNormalize ==
    /\ pc = "calls"
    /\ \E base \in BaseNames, kind \in {"none", "asked", "fixed"},
          y1 \in NameYears, y2 \in NameYears :
          last' = [op |-> "normalize_holiday_name", kind |-> kind,
                   name1 |-> NameFor(base, kind, y1), year1 |-> y1,
                   label1 |-> normalize_holiday_name(federal_state,
                                   NameFor(base, kind, y1), y1),
                   name2 |-> NameFor(base, kind, y2), year2 |-> y2,
                   label2 |-> normalize_holiday_name(federal_state,
                                   NameFor(base, kind, y2), y2)]
    /\ UNCHANGED <<federal_state, holidays_cache, school_holidays_cache, api,
                   source_df, categorized_source, target_years, target_year,
                   current_date, result_data, results, first, pc>>

\* the rows a date can have in a parsed series: 95, 96 or 97 of them, a
\* quarter of an hour or ten minutes apart or all at midnight, and all on
\* that date
DayRows ==
    {r \in [n : {INTERVALS_PER_DAY - 1, INTERVALS_PER_DAY, INTERVALS_PER_DAY + 1},
            first : {0}, step : {0, 10, INTERVAL_MINUTES}] :
        r.first + (r.n - 1) * r.step < 24 * 60}

\* the dates of the parsed series
SeriesDates == {Date(2024, 1, 16), Date(2024, 1, 17)}

\* the entry of a date with given rows; the loads differ from date to date
DayEntry(d, r) ==
    [date |-> d, n |-> r.n, load |-> 1000 * (d - Date(2024, 1, 15)),
     first |-> r.first, step |-> r.step]

\* parsed series of one or two dates, in either order
ParsedSeries ==
    { <<DayEntry(d, r)>> : d \in SeriesDates, r \in DayRows }
    \cup { df \in { <<DayEntry(d1, r1), DayEntry(d2, r2)>> :
                        d1 \in SeriesDates, d2 \in SeriesDates,
                        r1 \in DayRows, r2 \in DayRows } :
             df[1].date # df[2].date }

\* LoadProfileProcessor.chunk_by_days(df)
CallChunkByDays ==
    /\ pc = "calls"
    /\ \E df \in ParsedSeries :
          last' = [op |-> "chunk_by_days", df |-> df, ret |-> chunk_by_days(df)]
    /\ UNCHANGED <<federal_state, holidays_cache, school_holidays_cache, api,
                   source_df, categorized_source, target_years, target_year,
                   current_date, result_data, results, first, pc>>

\* the years get_weekends is asked for: 2023 starts on a Sunday, 2022 ends on
\* a Saturday
WeekendYears == {2022, 2023, 2024, 2026}

\* HolidayFetcher.get_weekends(year)
CallGetWeekends ==
    /\ pc = "calls"
    /\ \E year \in WeekendYears :
          last' = [op |-> "get_weekends", year |-> year,
                   ret |-> get_weekends(year)]
    /\ UNCHANGED <<federal_state, holidays_cache, school_holidays_cache, api,
                   source_df, categorized_source, target_years, target_year,
                   current_date, result_data, results, first, pc>>

\* the entries of a payload in the opposite order
Reversed(data) == [i \in 1..Len(data) |-> data[Len(data) + 1 - i]]

\* what ferien-api.de may answer for a year: nothing, an error, its entries
\* in the order of the year or in the opposite order
FerienAnswers(year) ==
    {Response("error", <<>>), Response("empty", <<>>),
     Response("ok", FerienPayload(year)),
     Response("ok", Reversed(FerienPayload(year)))}

\* HolidayFetcher.get_school_holidays(year) on a fetcher that holds nothing
CallFirstSchoolHolidays ==
    /\ pc = "calls"
    /\ \E year \in ProbeYears :
       \E response \in FerienAnswers(year) :
          last' = [op |-> "get_school_holidays", year |-> year,
                   response |-> response,
                   ret |-> get_school_holidays(federal_state, <<>>, year,
                                               response).ret]
    /\ UNCHANGED <<federal_state, holidays_cache, school_holidays_cache, api,
                   source_df, categorized_source, target_years, target_year,
                   current_date, result_data, results, first, pc>>

\* both services down: the fetcher works from its built-in calendars
ServicesDown == [pub |-> "error", school |-> "error"]

\* the dates inside the intervals of a school-holiday list
ListedDates(school_holidays) ==
    UNION {school_holidays[i][1]..school_holidays[i][2] :
              i \in 1..Len(school_holidays)}

\* what get_public_holidays and get_school_holidays return for a year on a
\* fetcher that holds nothing while both services are down
BuiltIn(year) ==
    [pub |-> get_public_holidays(federal_state, <<>>, year,
                                 NagerResponse(ServicesDown, year)),
     school |-> get_school_holidays(federal_state, <<>>, year,
                                    FerienResponse(ServicesDown, year))]

\* HolidayFetcher.categorize_date(d, d.year) working from the built-in
\* calendars, for a date d listed by the built-in school holidays of a year
CallCategorizeListed ==
    /\ pc = "calls"
    /\ \E year \in ProbeYears :
       \E own \in {[y \in {year, year + 1} |-> BuiltIn(y)]} :
       \E d \in ListedDates(own[year].school.ret) :
          last' = [op |-> "categorize_date", listed |-> year, date |-> d,
                   category |-> CategoryOf(d, own[YearOf(d)].pub,
                                           own[YearOf(d)].school, <<>>).category]
    /\ UNCHANGED <<federal_state, holidays_cache, school_holidays_cache, api,
                   source_df, categorized_source, target_years, target_year,
                   current_date, result_data, results, first, pc>>

\* the years _calculate_easter is asked for
EasterYears == 1900..2099

\* HolidayFetcher._calculate_easter(year) and _get_fallback_holidays(year)
CallCalculateEaster ==
    /\ pc = "calls"
    /\ \E year \in EasterYears :
          last' = [op |-> "calculate_easter", year |-> year,
                   month |-> EasterMonthDay(year).month,
                   day |-> EasterMonthDay(year).day,
                   ret |-> calculate_easter(year),
                   holidays |-> get_fallback_holidays(year)]
    /\ UNCHANGED <<federal_state, holidays_cache, school_holidays_cache, api,
                   source_df, categorized_source, target_years, target_year,
                   current_date, result_data, results, first, pc>>

CallsNext ==
    \/ CallNormalize
    \/ CallChunkByDays
    \/ CallGetWeekends
    \/ CallFirstSchoolHolidays
    \/ CallCategorizeListed
    \/ CallCalculateEaster

CallsSpec == CallsInit /\ [][CallsNext]_vars

(* ------------------------------------------------------------------ *)
(* What the properties below speak about                               *)
(* ------------------------------------------------------------------ *)
\* the loop of map_to_future_year has just handled last.date
Mapped == pc = "mapping" /\ last.date # NoDate

\* re.sub(r'\s*\d{4}\s*', '', s): every leftmost run of blanks, four digits,
\* blanks is removed
RECURSIVE StripYears(_)
StripYears(s) ==
    IF s = <<>> THEN <<>>
    ELSE LET body == LStrip(s) IN
         IF Len(body) >= 4 /\ IsDigits(SubSeq(body, 1, 4))
         THEN StripYears(LStrip(SubSeq(body, 5, Len(body))))
         ELSE <<s[1]>> \o StripYears(Tail(s))

\* the holiday type of a school-holiday label: the label without its year
TypeKey(desc) == Lower(Strip(StripYears(desc)))

\* the source school-holiday days of the holiday type of a label, in the
\* order of the corpus
TypeBucket(description) ==
    LET bucket == categorized_source.school_holiday
        idx == {i \in 1..Len(bucket) : TypeKey(bucket[i][3]) = TypeKey(description)}
    IN  [k \in 1..Cardinality(idx) |->
            bucket[CHOOSE i \in idx : Cardinality({j \in idx : j <= i}) = k]]

\* the category and label of a date of the target year, from the calendars
\* the fetcher holds for that year
TargetCategory(d) ==
    categorize_day(federal_state, holidays_cache, school_holidays_cache, d,
                   target_year, api)

\* a categorized date is a school-holiday day of the holiday type of a label
SameBlock(c, description) ==
    c.category = "school_holiday" /\ TypeKey(c.description) = TypeKey(description)

\* the number of dates immediately before d that are school-holiday days of
\* the same holiday type as d
RECURSIVE BlockOffset(_, _)
BlockOffset(d, description) ==
    IF SameBlock(TargetCategory(d - 1), description)
    THEN 1 + BlockOffset(d - 1, description)
    ELSE 0

\* the marker the consumers of the output look for in the source column
FallbackMarker == <<"(", "f", "a", "l", "l", "b", "a", "c", "k", ")">>
IsMarkedFallback(info) == Contains(Render(info), FallbackMarker)

(* ------------------------------------------------------------------ *)
(* C1: a school-holiday target date whose holiday type is present in   *)
(* the corpus under a label that differs only in the year is given a   *)
(* source day of that holiday type by the match, not by the fallback.  *)
(* ------------------------------------------------------------------ *)
C1_OtherYearSource ==
    \E i \in 1..Len(categorized_source.school_holiday) :
        /\ categorized_source.school_holiday[i][3] # last.description
        /\ TypeKey(categorized_source.school_holiday[i][3]) = TypeKey(last.description)

C1_CrossYearTypeMatch ==
    (Mapped /\ last.category = "school_holiday" /\ C1_OtherYearSource)
        => /\ last.sel.rule = "match"
           /\ TypeKey(last.sel.info.desc) = TypeKey(last.description)

(* ------------------------------------------------------------------ *)
(* C2: a school-holiday target date at offset k of its block is given  *)
(* element k mod B of the B source days of its holiday type.           *)
(* ------------------------------------------------------------------ *)
C2_OffsetWithinBlock ==
    (Mapped /\ last.category = "school_holiday"
        /\ TypeBucket(last.description) # <<>>)
        => LET bucket == TypeBucket(last.description)
               k == BlockOffset(last.date, last.description)
           IN  /\ last.sel.rule # "none"
               /\ last.sel.info.from = bucket[(k % Len(bucket)) + 1][1]

(* ------------------------------------------------------------------ *)
(* C3: with a multi-day school-holiday block in the corpus, the first  *)
(* three days of a target school-holiday block do not all carry the    *)
(* same source day.                                                    *)
(* ------------------------------------------------------------------ *)
C3_SourceBlock ==
    \E i \in 1..(Len(categorized_source.school_holiday) - 1) :
        LET a == categorized_source.school_holiday[i]
            b == categorized_source.school_holiday[i + 1]
        IN  a[1] + 1 = b[1] /\ a[3] = b[3] /\ a[2].load # b[2].load

C3_FirstThreeDiffer ==
    (Mapped /\ last.category = "school_holiday" /\ C3_SourceBlock
        /\ BlockOffset(last.date, last.description) = 2)
        => LET n == Len(result_data) IN
           /\ n >= 3
           /\ result_data[n].date = last.date
           /\ result_data[n - 2].date = last.date - 2
           /\ Cardinality({result_data[j].source.from : j \in (n - 2)..n}) >= 2

(* ------------------------------------------------------------------ *)
(* C4: the provenance of a day chosen by a fallback rule is marked as  *)
(* a fallback, that of a matched day is not.                           *)
(* ------------------------------------------------------------------ *)
C4_FallbackIsMarked ==
    (Mapped /\ last.sel.rule # "none")
        => (IsMarkedFallback(last.sel.info) <=> last.sel.rule = "fallback")

(* ------------------------------------------------------------------ *)
(* C5: a target date is left without output only when it is a normal   *)
(* day with no source normal day of its weekday; every public-holiday, *)
(* school-holiday and weekend date gets a day, whatever the corpus.    *)
(* ------------------------------------------------------------------ *)
\* the date the loop has just handled has no entry in the output
Gap == result_data = <<>> \/ result_data[Len(result_data)].date # last.date

NoSameWeekdaySource ==
    \A i \in 1..Len(categorized_source.normal) :
        Weekday(categorized_source.normal[i][1]) # Weekday(last.date)

C5_GapOnlyForNormal ==
    (Mapped /\ Gap) => (last.category = "normal" /\ NoSameWeekdaySource)

\* C5 as the code has it: the gap also occurs when the corpus has no day of
\* the date's category at all, and in no other case
C5_GapOnlyWithoutCandidate ==
    Mapped =>
        (Gap <=> IF last.category = "normal" THEN NoSameWeekdaySource
                 ELSE categorized_source[last.category] = <<>>)

C5_Witness ==
    /\ Mapped /\ Gap
    /\ last.category = "weekend"
    /\ categorized_source.weekend = <<>>
    /\ categorized_source.normal # <<>>

(* ------------------------------------------------------------------ *)
(* C6: categorize_date gives a date the first category that applies,   *)
(* in the order public holiday, school holiday, weekend, normal.       *)
(* ------------------------------------------------------------------ *)
\* the calendars held for the year of the latest categorize_date call
HeldPublic == holidays_cache[cache_key(federal_state, last.year)]
HeldSchool == school_holidays_cache[cache_key(federal_state, last.year)]

IsPublicHoliday(d) == \E i \in 1..Len(HeldPublic) : HeldPublic[i][2] = d
InSchoolHoliday(d) ==
    /\ cache_key(federal_state, last.year) \in DOMAIN school_holidays_cache
    /\ \E i \in 1..Len(HeldSchool) : HeldSchool[i][1] <= d /\ d <= HeldSchool[i][2]
IsSatSun(d) == Weekday(d) \in {5, 6}

C6_Precedence ==
    Mapped =>
        last.category =
            IF IsPublicHoliday(last.date) THEN "public_holiday"
            ELSE IF InSchoolHoliday(last.date) THEN "school_holiday"
            ELSE IF IsSatSun(last.date) THEN "weekend"
            ELSE "normal"

C6_Witness ==
    /\ Mapped
    /\ IsPublicHoliday(last.date) /\ InSchoolHoliday(last.date)
    /\ IsSatSun(last.date)
    /\ last.category = "public_holiday"

(* ------------------------------------------------------------------ *)
(* C7: categorize_date returns one of the four categories, and a call  *)
(* repeated with the same date and year on the same fetcher returns    *)
(* what the first one returned, whatever the services do in between.   *)
(* ------------------------------------------------------------------ *)
Categories == {"public_holiday", "school_holiday", "weekend", "normal"}

C7_SameAnswerAgain ==
    (pc = "fetcher" /\ last.date # NoDate) =>
        /\ last.category \in Categories
        /\ (last.date = first.date /\ last.year = first.year) =>
              /\ last.category = first.category
              /\ last.description = first.description

\* the call was repeated with the services in another condition, in which a
\* fetcher asked for the first time answers differently
C7_Witness ==
    /\ pc = "fetcher" /\ last.date # NoDate
    /\ last.date = first.date /\ last.year = first.year
    /\ last.services # first.services
    /\ categorize_day(federal_state, <<>>, <<>>, last.date, last.year,
                      last.services).category
          # last.category

(* ------------------------------------------------------------------ *)
(* C8: a normal target date is given the source normal day of the same *)
(* weekday whose day of the year is closest, the earliest source date  *)
(* winning a tie; without a source day of that weekday, nothing.       *)
(* ------------------------------------------------------------------ *)
DoyDistance(a, b) ==
    IF DayOfYear(a) >= DayOfYear(b) THEN DayOfYear(a) - DayOfYear(b)
    ELSE DayOfYear(b) - DayOfYear(a)

SameWeekdaySources ==
    {categorized_source.normal[i][1] : i \in
        {j \in 1..Len(categorized_source.normal) :
            Weekday(categorized_source.normal[j][1]) = Weekday(last.date)}}

C8_ClosestSameWeekday ==
    (Mapped /\ last.category = "normal") =>
        IF SameWeekdaySources = {} THEN last.sel.rule = "none" /\ Gap
        ELSE /\ ~Gap
             /\ result_data[Len(result_data)].source.from \in SameWeekdaySources
             /\ \A o \in SameWeekdaySources :
                   LET s == result_data[Len(result_data)].source.from IN
                   \/ DoyDistance(s, last.date) < DoyDistance(o, last.date)
                   \/ /\ DoyDistance(s, last.date) = DoyDistance(o, last.date)
                      /\ s <= o

C8_Witness ==
    /\ Mapped /\ last.category = "normal" /\ ~Gap
    /\ \E o \in SameWeekdaySources :
          /\ o # last.sel.info.from
          /\ DoyDistance(o, last.date) = DoyDistance(last.sel.info.from, last.date)

(* ------------------------------------------------------------------ *)
(* C9: a public-holiday target date is given the first source public   *)
(* holiday of the same label, or, there being none, the first public   *)
(* holiday of the corpus.                                              *)
(* ------------------------------------------------------------------ *)
SameLabelSources ==
    {categorized_source.public_holiday[i][1] : i \in
        {j \in 1..Len(categorized_source.public_holiday) :
            categorized_source.public_holiday[j][3] = last.description}}

PublicSources ==
    {categorized_source.public_holiday[i][1] :
        i \in 1..Len(categorized_source.public_holiday)}

Earliest(S) == CHOOSE d \in S : \A o \in S : d <= o

C9_PublicHolidayChoice ==
    (Mapped /\ last.category = "public_holiday" /\ PublicSources # {}) =>
        /\ ~Gap
        /\ result_data[Len(result_data)].source.from =
              IF SameLabelSources # {} THEN Earliest(SameLabelSources)
              ELSE Earliest(PublicSources)

C9_Witness ==
    /\ Mapped /\ last.category = "public_holiday"
    /\ SameLabelSources # {}
    /\ Earliest(SameLabelSources) # Earliest(PublicSources)
    /\ last.sel.info.from = Earliest(SameLabelSources)

(* ------------------------------------------------------------------ *)
(* C10: a weekend target date in ISO week w, the corpus holding a      *)
(* weekend day of ISO week w, is matched with a source day of ISO week *)
(* w, never with one of a week whose number only starts with w.        *)
(* ------------------------------------------------------------------ *)
C10_SameIsoWeek ==
    (Mapped /\ last.category = "weekend"
        /\ \E i \in 1..Len(categorized_source.weekend) :
              IsoWeek(categorized_source.weekend[i][1]) = IsoWeek(last.date))
        => /\ last.sel.rule = "match"
           /\ IsoWeek(last.sel.info.from) = IsoWeek(last.date)

(* ------------------------------------------------------------------ *)
(* C11: a school-holiday target date with no source day of its holiday *)
(* type is given the corpus school-holiday day at index                *)
(* day_of_year(d) mod (number of school-holiday days of the corpus).   *)
(* ------------------------------------------------------------------ *)
C11_FallbackCycles ==
    (Mapped /\ last.category = "school_holiday"
        /\ TypeBucket(last.description) = <<>>
        /\ categorized_source.school_holiday # <<>>)
        => LET bucket == categorized_source.school_holiday
           IN  /\ last.sel.rule = "fallback"
               /\ last.sel.info.from =
                     bucket[(DayOfYear(last.date) % Len(bucket)) + 1][1]

(* ------------------------------------------------------------------ *)
(* C12: the labels the fetcher builds for one holiday name and two     *)
(* years reduce to the same type key.                                  *)
(* ------------------------------------------------------------------ *)
C12_Normalized == pc = "calls" /\ last.op = "normalize_holiday_name"

\* C12 as stated, for any name: the same name string is normalized for two
\* years
C12_AnyNameYearInvariant ==
    (C12_Normalized /\ last.name1 = last.name2)
        => TypeKey(last.label1) = TypeKey(last.label2)

\* C12 for the names a calendar of a year is made of: a name without a year,
\* or a name that carries the year asked for
C12_YearInvariantTypeKey ==
    (C12_Normalized /\ last.kind \in {"none", "asked"})
        => TypeKey(last.label1) = TypeKey(last.label2)

C12_Witness ==
    /\ C12_Normalized /\ last.kind = "asked"
    /\ last.year1 # last.year2
    /\ last.label1 # last.label2
    /\ TypeKey(last.label1) = TypeKey(last.label2)

(* ------------------------------------------------------------------ *)
(* C13: chunk_by_days keeps a date if and only if the series holds     *)
(* exactly 96 rows of it, and keeps the rows of a kept date as they    *)
(* are.                                                                *)
(* ------------------------------------------------------------------ *)
C13_Chunked == pc = "calls" /\ last.op = "chunk_by_days"

\* the chunks chunk_by_days has returned for a date
ChunksOf(d) == {i \in 1..Len(last.ret) : last.ret[i][1] = d}

C13_KeptIffFullDay ==
    C13_Chunked =>
        /\ \A i \in 1..Len(last.df) :
              LET e == last.df[i] IN
              IF e.n = INTERVALS_PER_DAY
              THEN /\ Cardinality(ChunksOf(e.date)) = 1
                   /\ \A k \in ChunksOf(e.date) :
                         last.ret[k][2] = [len |-> e.n, load |-> e.load,
                                           first |-> e.first, step |-> e.step]
              ELSE ChunksOf(e.date) = {}
        /\ \A k \in 1..Len(last.ret) :
              \E i \in 1..Len(last.df) : last.df[i].date = last.ret[k][1]

C13_Witness ==
    /\ C13_Chunked
    /\ \E i, j \in 1..Len(last.df) :
          /\ last.df[i].n = INTERVALS_PER_DAY + 1
          /\ last.df[j].n = INTERVALS_PER_DAY
    /\ Len(last.ret) = 1

(* ------------------------------------------------------------------ *)
(* C14: every chunk chunk_by_days lets into the corpus has its 96 rows *)
(* at 00:00, 00:15, ..., 23:45 of its date.                            *)
(* ------------------------------------------------------------------ *)
C14_QuarterHourGrid ==
    C13_Chunked =>
        \A k \in 1..Len(last.ret) :
            /\ last.ret[k][2].len = INTERVALS_PER_DAY
            /\ \A i \in 0..(INTERVALS_PER_DAY - 1) :
                  ChunkMinute(last.ret[k][2], i) = i * INTERVAL_MINUTES

(* ------------------------------------------------------------------ *)
(* C15: a target date with a selected source day gets exactly 96       *)
(* records, the i-th at 00:00 plus 15 * i minutes with the i-th load   *)
(* of that source day; a date without one gets no record.              *)
(* ------------------------------------------------------------------ *)
\* the days of the corpus
CorpusDays ==
    UNION {{categorized_source[c][i] : i \in 1..Len(categorized_source[c])} :
              c \in {"public_holiday", "school_holiday", "weekend", "normal"}}

C15_StampedUnchanged ==
    Mapped =>
        IF last.sel.rule = "none" THEN last.records = <<>> /\ Gap
        ELSE /\ ~Gap
             /\ Len(last.records) = 96
             /\ \E day \in CorpusDays :
                   /\ day[1] = last.sel.info.from
                   /\ day[2].len = 96
                   /\ \A i \in 0..95 :
                         /\ last.records[i + 1].timestamp =
                               [date |-> last.date, minute |-> 15 * i]
                         /\ last.records[i + 1].load = day[2].load + i

C15_Witness ==
    /\ Mapped /\ last.sel.rule = "fallback"
    /\ Len(last.records) = 96
    /\ last.records[96].timestamp = [date |-> last.date, minute |-> 23 * 60 + 45]
    /\ last.records[96].load = last.sel.chunk.load + 95


(* ------------------------------------------------------------------ *)
(* C16: whatever a service answers (an error, an empty list, a list    *)
(* with an entry that cannot be parsed), a call of get_public_holidays, *)
(* get_school_holidays or categorize_date raises nothing and returns a *)
(* value: a calendar that is not empty, or one of the four categories. *)
(* ------------------------------------------------------------------ *)
C16_Called == pc = "fetcher" /\ last.year # 0

FailedAnswers == {"error", "malformed", "empty"}

C17_FailedFetchGivesBuiltin ==
    (pc = "fetcher" /\ last.year # 0 /\ last.op # "categorize_date"
       /\ last.fetched) =>
        /\ (last.op = "get_public_holidays"
              /\ last.services.pub \in FailedAnswers)
             => last.ret = get_fallback_holidays(last.year)
        /\ (last.op = "get_school_holidays"
              /\ last.services.school \in FailedAnswers)
             => last.ret = get_typical_school_holidays(federal_state, last.year)

(* ------------------------------------------------------------------ *)
(* C18: the first call of get_public_holidays or get_school_holidays   *)
(* for a year asks the service and stores what it resolves; a later    *)
(* call for the year asks no service and returns what is stored, which *)
(* stays as it was, also when the stored calendar is the built-in one  *)
(* and the service answers by now.                                     *)
(* ------------------------------------------------------------------ *)
CacheOf(op) ==
    IF op = "get_public_holidays" THEN holidays_cache ELSE school_holidays_cache

C18_Called == pc = "fetcher" /\ last.year # 0 /\ last.op # "categorize_date"

C18_StoredOnceThenReturned ==
    C18_Called =>
        /\ last.key \in DOMAIN CacheOf(last.op)
        /\ CacheOf(last.op)[last.key] = last.ret
        /\ last.fetched = ~last.hit
        /\ last.hit => last.ret = last.held

\* a later call, served from a cache that holds the built-in calendar, while
\* the service would now answer with another calendar
C18_Witness ==
    /\ C18_Called
    /\ last.op = "get_public_holidays"
    /\ last.hit
    /\ last.services.pub = "ok"
    /\ last.ret = get_fallback_holidays(last.year)
    /\ last.ret # fetch_from_primary_api(federal_state, last.year,
                      NagerResponse(last.services, last.year))

(* ------------------------------------------------------------------ *)
(* C20: get_weekends(year) returns (Saturday, Sunday, ISO week) pairs  *)
(* in ascending order, and every Saturday and every Sunday of the year *)
(* belongs to one of them, a Sunday on 1 January and a Saturday on 31  *)
(* December included.                                                  *)
(* ------------------------------------------------------------------ *)
C20_Called == pc = "calls" /\ last.op = "get_weekends"

C20_WeekendsCoverYear ==
    C20_Called =>
        /\ \A i \in 1..Len(last.ret) :
              /\ Weekday(last.ret[i][1]) = 5
              /\ last.ret[i][2] = last.ret[i][1] + 1
              /\ last.ret[i][3] = IsoWeek(last.ret[i][1])
              /\ i > 1 => last.ret[i - 1][1] < last.ret[i][1]
        /\ \A d \in Date(last.year, 1, 1)..Date(last.year, 12, 31) :
              Weekday(d) \in {5, 6} =>
                  \E i \in 1..Len(last.ret) :
                      d = last.ret[i][1] \/ d = last.ret[i][2]

(* ------------------------------------------------------------------ *)
(* C19: map_to_future_year run a second time with the same categorized *)
(* corpus, the same target year and the same calendars returns what    *)
(* the first run returned: the same dates with the same loads and the  *)
(* same provenance, in the same order.                                 *)
(* ------------------------------------------------------------------ *)
\* the loop of map_to_future_year is over for a year that was returned before
C19_SecondRunOver ==
    /\ pc = "mapping"
    /\ current_date > Date(target_year, 12, 31)
    /\ target_year \in DOMAIN results

C21_Called == pc = "calls" /\ last.op = "get_school_holidays"

C21_SortedAndDisjoint ==
    C21_Called =>
        \A i \in 1..Len(last.ret), j \in 1..Len(last.ret) :
            i < j => /\ last.ret[i][1] <= last.ret[j][1]
                     /\ last.ret[i][2] < last.ret[j][1]

(* ------------------------------------------------------------------ *)
(* C22: categorize_days puts every day kept by chunk_by_days into one  *)
(* bucket and no other, the bucket of the category categorize_date     *)
(* returns for the day against the day's own year; the sizes of the    *)
(* four buckets add up to the number of kept days.                     *)
(* ------------------------------------------------------------------ *)
\* the positions of a day in a bucket
PlacesOf(day, c) ==
    {i \in 1..Len(categorized_source[c]) : categorized_source[c][i][1] = day}

\* the category of a day against a year, on the fetcher as it is
CategoryAgainst(day, year) ==
    categorize_day(federal_state, holidays_cache, school_holidays_cache, day,
                   year, api).category

C22_FiledOnce(kept) ==
    /\ \A k \in 1..Len(kept) : \A c \in Categories :
          Cardinality(PlacesOf(kept[k][1], c))
             = IF c = CategoryAgainst(kept[k][1], YearOf(kept[k][1]))
               THEN 1 ELSE 0
    /\ Len(categorized_source.public_holiday)
         + Len(categorized_source.school_holiday)
         + Len(categorized_source.weekend) + Len(categorized_source.normal)
       = Len(kept)

C22_OneBucketByOwnYear ==
    pc = "categorized" => C22_FiledOnce(chunk_by_days(source_df))

\* a kept day whose category against the target year is another one than its
\* category against its own year
C22_Witness ==
    /\ pc = "categorized"
    /\ target_years # <<>>
    /\ \E c \in Categories : \E i \in 1..Len(categorized_source[c]) :
          CategoryAgainst(categorized_source[c][i][1], Head(target_years)) # c

(* ------------------------------------------------------------------ *)
(* C23: in each of the four buckets built by chunk_by_days and         *)
(* categorize_days the source days stand in strictly ascending order   *)
(* of their dates, whatever the order of the rows of the input series. *)
(* ------------------------------------------------------------------ *)
C23_BucketsAscending ==
    pc = "categorized" =>
        \A c \in Categories : \A i \in 1..Len(categorized_source[c]) :
            i > 1 => categorized_source[c][i - 1][1] < categorized_source[c][i][1]

\* the position of the rows of a day in the input series
RowsAt(day) == CHOOSE k \in 1..Len(source_df) : source_df[k].date = day

\* two days of one bucket whose rows came in the opposite order
C23_Witness ==
    /\ pc = "categorized"
    /\ \E c \in Categories : \E i \in 2..Len(categorized_source[c]) :
          RowsAt(categorized_source[c][i][1])
             < RowsAt(categorized_source[c][i - 1][1])

(* ------------------------------------------------------------------ *)
(* C24: map_to_future_year visits the dates from 1 January to 31       *)
(* December of the target year once each in ascending order, 366 of    *)
(* them in a leap year, every step of its loop going one day on, and   *)
(* past 31 December it returns; its records are in strictly increasing *)
(* order of their timestamps and lie inside the target year.           *)
(* ------------------------------------------------------------------ *)
\* timedelta minutes of a timestamp since the day before 0001-01-01
Minutes(timestamp) == timestamp.date * 24 * 60 + timestamp.minute

C24_InOrder ==
    pc = "mapping" =>
        /\ Date(target_year, 1, 1) <= current_date
        /\ current_date <= Date(target_year, 12, 31) + 1
        /\ IF last.date = NoDate THEN current_date = Date(target_year, 1, 1)
           ELSE last.date = current_date - 1
        /\ current_date > Date(target_year, 12, 31) =>
              \A k \in 1..Len(result_data) :
                 /\ YearOf(result_data[k].date) = target_year
                 /\ k > 1 => result_data[k - 1].date < result_data[k].date
        /\ last.date # NoDate =>
              \A i \in 1..Len(last.records) :
                 /\ last.records[i].timestamp.date = last.date
                 /\ i > 1 => Minutes(last.records[i - 1].timestamp)
                                < Minutes(last.records[i].timestamp)

\* a step of the loop handles current_date, appends at most the rows of that
\* date and goes one day on, which brings the loop closer to its end; past 31
\* December the one step left is the return
C24_Step ==
    /\ C24_InOrder'
    /\ (pc # "mapping" /\ pc' = "mapping") =>
          /\ current_date' = Date(target_year', 1, 1)
          /\ result_data' = <<>>
    /\ (pc = "mapping" /\ current_date <= Date(target_year, 12, 31)) =>
          /\ pc' = "mapping" /\ target_year' = target_year
          /\ last'.date = current_date
          /\ current_date' = current_date + 1
          /\ \/ result_data' = result_data
             \/ result_data' = Append(result_data, result_data'[Len(result_data')])
                /\ result_data'[Len(result_data')].date = current_date
    /\ (pc = "mapping" /\ current_date > Date(target_year, 12, 31)) =>
          /\ pc' = "categorized"
          /\ results'[target_year] = result_data

C24_OnePassThenReturn == [][C24_Step]_vars

\* the loop has gone through the 366 days of a leap year and mapped days
C24_Witness ==
    /\ pc = "mapping"
    /\ target_year = 2024
    /\ last.date = Date(2024, 12, 31)
    /\ current_date = Date(2024, 1, 1) + 366
    /\ Len(result_data) > 1
    /\ last.records # <<>>

(* ------------------------------------------------------------------ *)
(* C25: a weekend target date in ISO week w for which no day of the    *)
(* weekend bucket matches is given, when the bucket holds n > 0 days,  *)
(* the day at index w mod n of the bucket (counted from 0).            *)
(* ------------------------------------------------------------------ *)
\* the loop has just handled a weekend date that no day of the bucket matches
C25_Unmatched ==
    /\ Mapped
    /\ last.category = "weekend"
    /\ categorized_source.weekend # <<>>
    /\ \A j \in 1..Len(categorized_source.weekend) :
          ~SameWeek(categorized_source.weekend[j][3], IsoWeek(last.date))

\* element k, counted from 0, of the weekend bucket is what was selected
C25_Took(k) ==
    /\ last.sel.rule = "fallback"
    /\ last.sel.index = k + 1
    /\ last.sel.chunk = categorized_source.weekend[k + 1][2]
    /\ last.sel.info.from = categorized_source.weekend[k + 1][1]
    /\ result_data[Len(result_data)].chunk = categorized_source.weekend[k + 1][2]

FreshPublic(year) ==
    get_public_holidays(federal_state, <<>>, year, NagerResponse(api, year)).ret
FreshSchool(year) ==
    get_school_holidays(federal_state, <<>>, year, FerienResponse(api, year)).ret

C26_Step ==
    /\ pc \in {"categorized", "mapping"} =>
          categorized_source' = categorized_source
    /\ (pc = "categorized" /\ pc' = "mapping") =>
          /\ holidays_cache'[cache_key(federal_state, target_year')]
                = FreshPublic(target_year')
          /\ school_holidays_cache'[cache_key(federal_state, target_year')]
                = FreshSchool(target_year')
    /\ (pc = "mapping" /\ pc' = "mapping") =>
          /\ holidays_cache' = holidays_cache
          /\ school_holidays_cache' = school_holidays_cache
    /\ (pc = "mapping" /\ pc' = "categorized") =>
          /\ \A y \in DOMAIN results :
                results'[y] = IF y = target_year THEN result_data ELSE results[y]
          /\ target_year \in DOMAIN results => result_data = results[target_year]

C26_CorpusReadOnlyYearsApart == [][C26_Step]_vars

\* 2026 has been mapped again after 2024 was mapped in between
C26_Witness ==
    /\ pc = "categorized"
    /\ target_years = <<>>
    /\ DOMAIN results = {2024, 2026}
    /\ results[2024] # <<>> /\ results[2026] # <<>>
    /\ results[2024] # results[2026]
    /\ \E c \in Categories : categorized_source[c] # <<>>

(* ------------------------------------------------------------------ *)
(* C27: every date inside an interval of the built-in school holidays  *)
(* of a year, the days from 1 to 6 January of the following year       *)
(* included, is a school holiday or a public holiday for               *)
(* categorize_date(d, d.year) working from the built-in calendars.     *)
(* ------------------------------------------------------------------ *)
C27_ListedIsHoliday ==
    (pc = "calls" /\ last.op = "categorize_date") =>
        last.category \in {"school_holiday", "public_holiday"}

(* ------------------------------------------------------------------ *)
(* C28: for every year from 1900 to 2099 _calculate_easter returns a   *)
(* date that exists, lies in the year, is a Sunday and falls between   *)
(* 22 March and 25 April, so that _get_fallback_holidays builds its    *)
(* calendar of that year.                                              *)
(* ------------------------------------------------------------------ *)
C28_Called == pc = "calls" /\ last.op = "calculate_easter"

C28_EasterSunday ==
    C28_Called =>
        /\ ValidDate(last.year, last.month, last.day) # NoDate
        /\ ValidDate(last.year, last.month, last.day) = last.ret
        /\ YearOf(last.ret) = last.year
        /\ Weekday(last.ret) = 6
        /\ Date(last.year, 3, 22) <= last.ret
        /\ last.ret <= Date(last.year, 4, 25)
        /\ Len(last.holidays) = 10
        /\ \A i \in 1..Len(last.holidays) :
              YearOf(last.holidays[i][2]) = last.year

\* a year in which the correction m is 1, and a year of the latest Easter
C28_Witness ==
    /\ C28_Called
    /\ \/ last.year = 1981 /\ last.ret = Date(1981, 4, 19)
       \/ last.year = 2038 /\ last.ret = Date(2038, 4, 25)

(* ------------------------------------------------------------------ *)
(* C29: a day map_to_future_year emits takes its profile from the      *)
(* bucket of the target date's own category, whether the source day    *)
(* matched or was a fallback, and from no other bucket.                *)
(* ------------------------------------------------------------------ *)
\* the selected source day stands in bucket c, at the position the selection
\* names, with the chunk that was emitted
C29_TakenFrom(c) ==
    /\ last.sel.index \in 1..Len(categorized_source[c])
    /\ categorized_source[c][last.sel.index][1] = last.sel.info.from
    /\ categorized_source[c][last.sel.index][2] = last.sel.chunk
    /\ result_data[Len(result_data)].chunk = last.sel.chunk
    /\ result_data[Len(result_data)].date = last.date

C29_OwnBucketOnly ==
    (Mapped /\ last.sel.rule # "none") =>
        /\ last.category \in Categories
        /\ C29_TakenFrom(last.category)
        /\ \A c \in Categories \ {last.category} :
              PlacesOf(last.sel.info.from, c) = {}

\* a fallback was taken for a public holiday while other buckets held days
C29_Witness ==
    /\ Mapped
    /\ last.category = "public_holiday"
    /\ last.sel.rule = "fallback"
    /\ categorized_source.normal # <<>>
    /\ categorized_source.weekend # <<>>

(* ------------------------------------------------------------------ *)
(* C30: the source day of a weekend target date depends on the ISO     *)
(* week of the date and not on its weekday: when the Saturday and the  *)
(* Sunday of one ISO week of the target year are both weekend dates,   *)
(* both are given the same source day, or none.                        *)
(* ------------------------------------------------------------------ *)
\* the loop has just handled a weekend Sunday whose Saturday, a date of the
\* target year too, is a weekend date as well
C30_WeekendPair ==
    /\ Mapped
    /\ last.category = "weekend"
    /\ Weekday(last.date) = 6
    /\ YearOf(last.date - 1) = target_year
    /\ IsoWeek(last.date - 1) = IsoWeek(last.date)
    /\ CategoryAgainst(last.date - 1, target_year) = "weekend"

\* the rows of the day before last.date, emitted before those of last.date
C30_SaturdayRow == result_data[Len(result_data) - 1]

C30_SameSourceDay ==
    C30_WeekendPair =>
        IF last.sel.rule = "none"
        THEN \A k \in 1..Len(result_data) : result_data[k].date # last.date - 1
        ELSE /\ Len(result_data) >= 2
             /\ C30_SaturdayRow.date = last.date - 1
             /\ C30_SaturdayRow.source = last.sel.info
             /\ C30_SaturdayRow.chunk = last.sel.chunk

\* the pair was served by the fallback from a bucket of several days
C30_Witness ==
    /\ C30_WeekendPair
    /\ last.sel.rule = "fallback"
    /\ Len(categorized_source.weekend) > 1
====
